---------------------------- MODULE Spec2Model ----------------------------
(***************************************************************************)
(* The real-time synchronization hub (the Socket.IO server): connection    *)
(* handshake (authentication, rate limiting), session and project rooms,   *)
(* the per-session message history and its replay, the event handlers and  *)
(* the timers they start.                                                  *)
(*                                                                         *)
(* Node runs every handler and every timer callback to completion on one   *)
(* thread, so each handler is one atomic action.  Time is counted in ticks *)
(* of 12 hours: the history cleanup's 24 hour cutoff is CutoffTicks = 2.   *)
(***************************************************************************)
EXTENDS Integers, Sequences, FiniteSets, TLC

\* ------------------------------------------------------------------ bounds
\* steps the clients take (connect, disconnect, send) in one behaviour of Spec
MaxOps == 4
\* steps the clients take in one behaviour of SpecChat
MaxChatOps == 5
\* steps the clients take in one behaviour of SpecRooms
MaxRoomOps == 6
\* steps the clients take in one behaviour of SpecSession
MaxSessionOps == 7
\* steps the clients take in one behaviour of SpecFollowUp
MaxFollowUpOps == 5
\* steps the clients take in one behaviour of SpecRegistry
MaxRegistryOps == 6
\* steps the clients take in one behaviour of SpecShutdown
MaxShutdownOps == 4
\* ticks of the clock
MaxTime == 2
\* connection attempts per source address beyond the quota in SpecRate
MaxOver == 2
\* chat messages sent beyond the limiter's quota in SpecFlood
MaxExtra == 2

\* --------------------------------------------------------------- constants
\* rateLimiter: points per duration
Points == 100
\* join_session: sessionHistory.slice(-50)
ReplayLimit == 50
\* history cleanup: 24 * 60 * 60 * 1000 ms, in ticks of 12 hours
CutoffTicks == 2
\* chat_message: content max(10000)
ContentMax == 10000
\* terminal_command: command max(1000)
CommandMax == 1000
\* tts_notification: message max(500)
TtsMax == 500

Conns == {"c1", "c2", "c3"}
\* socket.handshake.address of each connection
AddrOf == [c \in Conns |-> IF c = "c3" THEN "a2" ELSE "a1"]
Addrs == {"a1", "a2"}
\* session ids that are well-formed UUIDs
SessionIds == {"s1", "s2"}
ProjectIds == {"p1"}
\* the value of a field the payload does not carry
\* an environment variable the deployment did not set
Unset == "unset"
\* the values a deployment gives NODE_ENV
Envs == {Unset, "development", "production"}

Missing == "missing"
\* a string that is no UUID
NotUuid == "not-a-uuid"
\* the falsy room id (undefined, null or '')
Falsy == ""

\* handshake credentials: a token signed with JWT_SECRET for userA, a token
\* that fails jwt.verify, and no token at all
Tokens == {"tokA", "bad", "none"}
\* the credentials each client presents
TokensOf == [c \in Conns |-> IF c = "c3" THEN {"none", "bad"} ELSE {"tokA", "bad"}]

VARIABLES
  nodeEnv,         \* process.env.NODE_ENV as the deployment set it, or Unset
  phase,           \* the process: "running", "announced" (SIGTERM received,
                   \* grace timer pending), "closing" (server.close() called)
                   \* or "exited"
  announced,       \* io.emit('server_shutdown', ...) has been called
  connectError,    \* the error the most recent handshake was refused with,
                   \* "none" when it was admitted
  status,          \* per connection: "idle" (no socket) or "open"
  userId,          \* socket.userId
  rooms,           \* the adapter's rooms of each socket
  inbox,           \* the events each connection's client has received, in order
  activeSessions,  \* Map sessionId -> Set of userId
  activeProjects,  \* Map projectId -> Set of userId
  messageHistory,  \* Map session key -> list of messages
  aiTimers,        \* pending setTimeout(..., 1000) callbacks of chat_message
  termTimers,      \* pending setTimeout(..., 500) callbacks of terminal_command
  consumed,        \* rateLimiter: points consumed per address in its window
  socketStats,     \* global.socketStats
  nextId,          \* stands for uuidv4(): the next fresh id
  now,             \* Date.now(), in ticks
  ops,             \* steps the clients have taken so far
  crashed,         \* an exception escaped a callback and ended the process
  retiredAt,       \* history variable: per session, the id that was next when
                   \* its room was last deleted from activeSessions (0: never)
  \* --- the TTS script (one run of the script per element of Scripts)
  ttsLock,         \* the directory $TTS_LOCK_FILE exists
  ttsPc,           \* where each run of the script is
  timeout,         \* acquire_lock's local counter of each run
  saying,          \* the runs whose say process is playing
  \* --- BaseErrorHandler.retry (calls that share one key)
  retryAttempts,   \* this.retryAttempts.get(key) || 0
  retryPc,         \* where each call of retry is
  invoked,         \* history variable: times each call invoked operation()
  category,        \* error.category of each call
  \* --- APIService.request
  apiPc,           \* where the request is
  apiRetryAttempts,\* this.retryAttempts
  attempt,         \* the parameter attempt of the running invocation
  fetches,         \* history variable: calls of fetch()
  apiError,        \* the error the catch block caught last
  apiResponse,     \* what the promise resolved to
  authData,        \* the stored credentials exist
  apiLog           \* console.error lines: the origin of each caught error

vars == <<nodeEnv, phase, announced, connectError, status, userId, rooms, inbox, activeSessions,
          activeProjects, messageHistory, aiTimers, termTimers, consumed,
          socketStats, nextId, now, ops, crashed, retiredAt,
          ttsLock, ttsPc, timeout, saying,
          retryAttempts, retryPc, invoked, category,
          apiPc, apiRetryAttempts, attempt, fetches, apiError, apiResponse,
          authData, apiLog>>

\* the state of the hub
hubVars == <<nodeEnv, phase, announced, connectError, status, userId, rooms, inbox, activeSessions,
             activeProjects, messageHistory, aiTimers, termTimers, consumed,
             socketStats, nextId, now, ops, crashed, retiredAt>>
\* the state of the TTS script's runs
ttsVars == <<ttsLock, ttsPc, timeout, saying>>
\* the state of the error handler
retryVars == <<retryAttempts, retryPc, invoked, category>>
\* the state of the mobile app's API service
apiVars == <<apiPc, apiRetryAttempts, attempt, fetches, apiError, apiResponse,
             authData, apiLog>>

\* concurrent runs of the TTS script
Scripts == {"t1", "t2", "t3"}
\* concurrent calls of retry with one error code and one operation name
Callers == {"r1", "r2", "r3"}
\* no error was caught yet
NoError == [name |-> "none", message |-> <<>>, origin |-> "none"]

\* no run of the script has started; $TTS_QUEUE_DIR exists, no lock is held
InitTts ==
  /\ ttsLock = FALSE
  /\ ttsPc = [p \in Scripts |-> "idle"]
  /\ timeout = [p \in Scripts |-> 0]
  /\ saying = {}

\* new BaseErrorHandler(): this.retryAttempts = new Map()
InitRetry ==
  /\ retryAttempts = 0
  /\ retryPc = [k \in Callers |-> "idle"]
  /\ invoked = [k \in Callers |-> 0]
  /\ category = [k \in Callers |-> "none"]

\* before new APIService(); the user is logged in
InitApi ==
  /\ apiPc = "new"
  /\ apiRetryAttempts = 0
  /\ attempt = 0
  /\ fetches = 0
  /\ apiError = NoError
  /\ apiResponse = "none"
  /\ authData = TRUE
  /\ apiLog = <<>>

\* ----------------------------------------------------------------- helpers
\* const NODE_ENV = process.env.NODE_ENV || 'development'
NODE_ENV == IF nodeEnv = Unset THEN "development" ELSE nodeEnv

\* the process is alive: no exception escaped, process.exit was not called
Running == ~crashed /\ phase # "exited"

Last(s) == s[Len(s)]

\* slice(0, n) where slice(-n) is meant
SliceFirst(s, n) ==
  IF Len(s) <= n THEN s ELSE SubSeq(s, 1, n)

\* Array.prototype.slice(-n)
SliceLast(s, n) ==
  IF Len(s) <= n THEN s ELSE SubSeq(s, Len(s) - n + 1, Len(s))

\* messages.filter(msg => new Date(msg.timestamp).getTime() > cutoffTime)
RECURSIVE FilterStale(_, _)
RECURSIVE FilterRecent(_, _)
\* a filter that keeps the messages older than the cutoff
FilterStale(s, cutoff) ==
  IF s = <<>> THEN <<>>
  ELSE IF Head(s).ts <= cutoff
       THEN <<Head(s)>> \o FilterStale(Tail(s), cutoff)
       ELSE FilterStale(Tail(s), cutoff)

FilterRecent(s, cutoff) ==
  IF s = <<>> THEN <<>>
  ELSE IF Head(s).ts > cutoff
       THEN <<Head(s)>> \o FilterRecent(Tail(s), cutoff)
       ELSE FilterRecent(Tail(s), cutoff)

\* one room name for every user
UserRoomShared(u) == <<"user", "all">>

SessionRoom(s) == <<"session", s>>
ProjectRoom(p) == <<"project", p>>
UserRoom(u) == <<"user", u>>

\* the sockets the adapter holds in a room
\* every open socket, whatever rooms it is in
RoomSocketsAll(room) == {c \in Conns : status[c] = "open"}

RoomSockets(room) == {c \in Conns : status[c] = "open" /\ room \in rooms[c]}
\* an emit to a room name no socket has joined
IoToNobody(room) == {}
\* io.to(room): every socket of the room
IoTo(room) == RoomSockets(room)
\* socket.to(room): every socket of the room but the emitting one
SocketTo(c, room) == RoomSockets(room) \ {c}

\* emit: the event is written to each target's connection, which keeps order
Deliver(box, targets, ev) ==
  [c \in Conns |-> IF c \in targets THEN Append(box[c], ev) ELSE box[c]]

ErrorEvent(text) == [kind |-> "error", message |-> text]

\* -------------------------------------------------------------------- Init
InitHub(env) ==
  /\ nodeEnv = env
  /\ phase = "running"
  /\ announced = FALSE
  /\ connectError = "none"
  /\ status = [c \in Conns |-> "idle"]
  /\ userId = [c \in Conns |-> "none"]
  /\ rooms = [c \in Conns |-> {}]
  /\ inbox = [c \in Conns |-> <<>>]
  /\ activeSessions = <<>>
  /\ activeProjects = <<>>
  /\ messageHistory = <<>>
  /\ aiTimers = <<>>
  /\ termTimers = <<>>
  /\ consumed = [a \in Addrs |-> 0]
  /\ socketStats = [connections |-> 0, messages |-> 0]
  /\ nextId = 1
  /\ now = 0
  /\ ops = 0
  /\ crashed = FALSE
  /\ retiredAt = [s \in SessionIds |-> 0]
  /\ InitTts
  /\ InitRetry
  /\ InitApi

\* the deployment does not set NODE_ENV
Init == InitHub(Unset)



\* --------------------------------------------------------------- handshake
\* a middleware whose catch block falls back to the anonymous branch
AuthenticateLenient(c, token) ==
  IF token = "tokA"
  THEN [ok |-> TRUE, uid |-> "userA", err |-> "none"]
  ELSE IF NODE_ENV = "development"
       THEN [ok |-> TRUE, uid |-> "anon_" \o c, err |-> "none"]
       ELSE [ok |-> FALSE, uid |-> "none", err |-> "Authentication required"]

\* the authentication middleware: the identity the token resolves to, or the
\* error it passes to next()
Authenticate(c, token) ==
  IF token = "none"
  THEN IF NODE_ENV = "development"
       THEN [ok |-> TRUE, uid |-> "anon_" \o c, err |-> "none"]
       ELSE [ok |-> FALSE, uid |-> "none", err |-> "Authentication required"]
  ELSE IF token = "tokA"
       THEN [ok |-> TRUE, uid |-> "userA", err |-> "none"]
       ELSE [ok |-> FALSE, uid |-> "none", err |-> "Invalid authentication token"]

\* a limiter whose rejection is not passed on
ConsumeAdmitsAlways(n) == TRUE

\* a limiter that refuses the last point of the quota
ConsumeAdmitsStrict(n) == n + 1 < Points

\* rateLimiter.consume(key): resolves while the points consumed in the window,
\* this one included, do not exceed the quota
ConsumeAdmits(n) == n + 1 <= Points

\* a connection attempt: the two io.use middlewares in the order they were
\* registered, then the connection handler
Connect(c, token) ==
  /\ Running
  /\ phase \in {"running", "announced"}
  /\ status[c] = "idle"
  /\ LET auth == Authenticate(c, token)
         a == AddrOf[c]
     IN IF ~auth.ok
        THEN \* next(new Error(...)): the socket is refused
             /\ connectError' = auth.err
             /\ UNCHANGED <<status, userId, rooms, consumed, socketStats>>
        ELSE /\ consumed' = [consumed EXCEPT ![a] = @ + 1]
             /\ IF ~ConsumeAdmits(consumed[a])
                THEN \* next(new Error('Rate limit exceeded'))
                     /\ connectError' = "Rate limit exceeded"
                     /\ UNCHANGED <<status, userId, rooms, socketStats>>
                ELSE /\ connectError' = "none"
                     /\ status' = [status EXCEPT ![c] = "open"]
                     /\ userId' = [userId EXCEPT ![c] = auth.uid]
                     /\ rooms' = [rooms EXCEPT ![c] = {UserRoom(auth.uid)}]
                     /\ socketStats' =
                          [socketStats EXCEPT !.connections = @ + 1]
  /\ UNCHANGED <<phase, announced, nodeEnv, retiredAt, inbox, activeSessions,
                 activeProjects, messageHistory, aiTimers, termTimers, nextId,
                 now, crashed>>

\* the limiter's window of an address ends `duration` seconds after its first
\* consume: the key expires and the count starts again
WindowExpire(a) ==
  /\ Running
  /\ consumed[a] > 0
  /\ consumed' = [consumed EXCEPT ![a] = 0]
  /\ UNCHANGED <<phase, announced, connectError, nodeEnv, retiredAt, status, userId, rooms, inbox,
                 activeSessions, activeProjects, messageHistory, aiTimers,
                 termTimers, socketStats, nextId, now, crashed>>

\* --------------------------------------------------------------- rooms
\* tracking in which a second join of a member takes the member out again
TrackJoinToggle(map, id, u) ==
  IF id \in DOMAIN map
  THEN [map EXCEPT ![id] = IF u \in @ THEN @ \ {u} ELSE @ \cup {u}]
  ELSE [k \in DOMAIN map \cup {id} |-> IF k = id THEN {u} ELSE map[k]]

\* activeSessions / activeProjects tracking of a join:
\* if (!map.has(id)) map.set(id, new Set()); map.get(id).add(userId)
TrackJoin(map, id, u) ==
  IF id \in DOMAIN map
  THEN [map EXCEPT ![id] = @ \cup {u}]
  ELSE [k \in DOMAIN map \cup {id} |-> IF k = id THEN {u} ELSE map[k]]

\* a disconnect handler that leaves the registries alone
UntrackUserNever(map, u) == map

\* the disconnect handler's forEach over a map: delete the user from every
\* member set that has it, delete the entries that become empty
UntrackUser(map, u) ==
  LET keep == {k \in DOMAIN map : map[k] \ {u} # {}}
  IN [k \in keep |-> map[k] \ {u}]

\* io.to(room).emit where socket.emit is meant
ReplayTargetsRoom(c, sessionId) == RoomSockets(SessionRoom(sessionId)) \cup {c}

\* socket.emit('session_history', ...): the joining socket alone
ReplayTargets(c, sessionId) == {c}

\* join_session
JoinSession(c, sessionId) ==
  /\ Running
  /\ status[c] = "open"
  /\ IF sessionId = Falsy
     THEN /\ inbox' = Deliver(inbox, {c}, ErrorEvent("Session ID is required"))
          /\ UNCHANGED <<rooms, activeSessions>>
     ELSE /\ rooms' = [rooms EXCEPT ![c] = @ \cup {SessionRoom(sessionId)}]
          /\ activeSessions' = TrackJoin(activeSessions, sessionId, userId[c])
          /\ LET sessionHistory ==
                   IF sessionId \in DOMAIN messageHistory
                   THEN messageHistory[sessionId] ELSE <<>>
                 replay == [kind |-> "session_history", sessionId |-> sessionId,
                            messages |-> SliceLast(sessionHistory, ReplayLimit)]
                 joined == [kind |-> "session_joined", sessionId |-> sessionId]
             IN inbox' = Deliver(Deliver(inbox, ReplayTargets(c, sessionId), replay),
                               {c}, joined)
  /\ UNCHANGED <<phase, announced, connectError, nodeEnv, retiredAt, status, userId, activeProjects,
                 messageHistory, aiTimers, termTimers, consumed, socketStats,
                 nextId, now, crashed>>

\* join_project
JoinProject(c, projectId) ==
  /\ Running
  /\ status[c] = "open"
  /\ IF projectId = Falsy
     THEN /\ inbox' = Deliver(inbox, {c}, ErrorEvent("Project ID is required"))
          /\ UNCHANGED <<rooms, activeProjects>>
     ELSE /\ rooms' = [rooms EXCEPT ![c] = @ \cup {ProjectRoom(projectId)}]
          /\ activeProjects' = TrackJoin(activeProjects, projectId, userId[c])
          /\ inbox' = Deliver(inbox, {c},
                         [kind |-> "project_joined", projectId |-> projectId])
  /\ UNCHANGED <<phase, announced, connectError, nodeEnv, retiredAt, status, userId, activeSessions,
                 messageHistory, aiTimers, termTimers, consumed, socketStats,
                 nextId, now, crashed>>

\* a close after which the socket's pending terminal timers still reach the
\* client
DisconnectKeepsTimers(c) ==
  /\ Running
  /\ status[c] = "open"
  /\ status' = [status EXCEPT ![c] = "idle"]
  /\ rooms' = [rooms EXCEPT ![c] = {}]
  /\ socketStats' = [socketStats EXCEPT
        !.connections = IF @ - 1 > 0 THEN @ - 1 ELSE 0]
  /\ activeSessions' = UntrackUser(activeSessions, userId[c])
  /\ activeProjects' = UntrackUser(activeProjects, userId[c])
  /\ retiredAt' = [s \in SessionIds |->
        IF s \in DOMAIN activeSessions
           /\ s \notin DOMAIN UntrackUser(activeSessions, userId[c])
        THEN nextId ELSE retiredAt[s]]
  /\ userId' = [userId EXCEPT ![c] = "none"]
  /\ inbox' = [inbox EXCEPT ![c] = <<>>]
  /\ UNCHANGED <<phase, announced, connectError, nodeEnv, messageHistory,
                 aiTimers, termTimers, consumed, nextId, now, crashed>>

\* a disconnect handler that does not update the connections counter
DisconnectKeepsCount(c) ==
  /\ Running
  /\ status[c] = "open"
  /\ status' = [status EXCEPT ![c] = "idle"]
  /\ rooms' = [rooms EXCEPT ![c] = {}]
  /\ activeSessions' = UntrackUser(activeSessions, userId[c])
  /\ activeProjects' = UntrackUser(activeProjects, userId[c])
  /\ retiredAt' = [s \in SessionIds |->
        IF s \in DOMAIN activeSessions
           /\ s \notin DOMAIN UntrackUser(activeSessions, userId[c])
        THEN nextId ELSE retiredAt[s]]
  /\ userId' = [userId EXCEPT ![c] = "none"]
  /\ inbox' = [inbox EXCEPT ![c] = <<>>]
  /\ termTimers' = [i \in DOMAIN termTimers |->
        IF termTimers[i].socket = c
        THEN [termTimers[i] EXCEPT !.socket = "closed"]
        ELSE termTimers[i]]
  /\ UNCHANGED <<phase, announced, connectError, nodeEnv, messageHistory,
                 aiTimers, consumed, socketStats, nextId, now, crashed>>

\* the socket closes (client disconnect, ping timeout, transport error):
\* Socket.IO takes the socket out of all its rooms, then the disconnect
\* handler runs.  A terminal timer of the socket keeps its closure.
Disconnect(c) ==
  /\ Running
  /\ status[c] = "open"
  /\ status' = [status EXCEPT ![c] = "idle"]
  /\ rooms' = [rooms EXCEPT ![c] = {}]
  /\ socketStats' = [socketStats EXCEPT
        !.connections = IF @ - 1 > 0 THEN @ - 1 ELSE 0]
  /\ activeSessions' = UntrackUser(activeSessions, userId[c])
  /\ activeProjects' = UntrackUser(activeProjects, userId[c])
  /\ retiredAt' = [s \in SessionIds |->
        IF s \in DOMAIN activeSessions
           /\ s \notin DOMAIN UntrackUser(activeSessions, userId[c])
        THEN nextId ELSE retiredAt[s]]
  /\ userId' = [userId EXCEPT ![c] = "none"]
  /\ inbox' = [inbox EXCEPT ![c] = <<>>]
  /\ termTimers' = [i \in DOMAIN termTimers |->
        IF termTimers[i].socket = c
        THEN [termTimers[i] EXCEPT !.socket = "closed"]
        ELSE termTimers[i]]
  /\ UNCHANGED <<phase, announced, connectError, nodeEnv, messageHistory, aiTimers, consumed, nextId, now, crashed>>

\* ----------------------------------------------------------- event bodies
\* The argument a client passes with an event: an object with the fields
\* below, or nothing at all (shape "undefined").  A string field is modelled
\* by its length, -1 when the field is absent.
IsUuid(x) == x \in SessionIds

ChatBody(n, s) == [shape |-> "object", content |-> n, sessionId |-> s]
ChatPayloads ==
  {ChatBody(1, s) : s \in SessionIds}
  \cup {ChatBody(0, "s1"), ChatBody(-1, "s1"), ChatBody(ContentMax + 1, "s1"),
        ChatBody(1, NotUuid), ChatBody(1, Missing)}
  \cup {[shape |-> "undefined", content |-> -1, sessionId |-> Missing]}

TerminalBody(n, s) == [shape |-> "object", command |-> n, sessionId |-> s]
TerminalPayloads ==
  {TerminalBody(1, "s1"), TerminalBody(0, "s1"), TerminalBody(-1, "s1"),
   TerminalBody(CommandMax + 1, "s1"), TerminalBody(1, NotUuid),
   TerminalBody(1, Missing)}
  \cup {[shape |-> "undefined", command |-> -1, sessionId |-> Missing]}

FileBody(f, n, p, a) ==
  [shape |-> "object", filePath |-> f, content |-> n, projectId |-> p,
   action |-> a]
FilePayloads ==
  {FileBody(1, 1, p, a) : p \in ProjectIds, a \in {"create", "delete"}}
  \cup {FileBody(-1, 1, "p1", "update"), FileBody(1, 0, "p1", "update"),
        FileBody(1, 1, Missing, "update"), FileBody(1, 1, "p1", "rename")}
  \cup {[shape |-> "undefined", filePath |-> -1, content |-> -1,
         projectId |-> Missing, action |-> Missing]}

TtsBody(n, t, p) ==
  [shape |-> "object", message |-> n, type |-> t, priority |-> p]
TtsPayloads ==
  {TtsBody(1, "info", p) : p \in {"normal", "urgent", Missing}}
  \cup {TtsBody(0, "info", "normal"), TtsBody(TtsMax + 1, "info", "normal"),
        TtsBody(1, "debug", "normal"), TtsBody(1, "info", "low")}
  \cup {[shape |-> "undefined", message |-> -1, type |-> Missing,
         priority |-> Missing]}

TypingPayloads ==
  [shape : {"object"}, sessionId : SessionIds \cup {Falsy}]
  \cup {[shape |-> "undefined", sessionId |-> Falsy]}

\* messageSchemas.<kind>.validate(data) reports no error.  Joi.object() does
\* not require the object itself: an absent argument passes with value
\* undefined.  Joi.string() rejects the empty string.
ValidChat(d) ==
  d.shape = "undefined"
  \/ (d.content >= 1 /\ d.content <= ContentMax /\ IsUuid(d.sessionId))

ValidTerminal(d) ==
  d.shape = "undefined"
  \/ (d.command >= 1 /\ d.command <= CommandMax /\ IsUuid(d.sessionId))

ValidFile(d) ==
  d.shape = "undefined"
  \/ (/\ d.filePath >= 1
      /\ d.content >= 1
      /\ d.projectId # Missing
      /\ d.action \in {"create", "update", "delete"})

ValidTts(d) ==
  d.shape = "undefined"
  \/ (/\ d.message >= 1 /\ d.message <= TtsMax
      /\ d.type \in {"info", "success", "warning", "error"}
      /\ d.priority \in {"normal", "urgent", Missing})

\* ------------------------------------------------------------ chat_message
\* unshift where push is meant
HistoryUnshift(hist, key, m) ==
  IF key \in DOMAIN hist
  THEN [hist EXCEPT ![key] = <<m>> \o @]
  ELSE [k \in DOMAIN hist \cup {key} |-> IF k = key THEN <<m>> ELSE hist[k]]

\* if (!messageHistory.has(key)) messageHistory.set(key, []);
\* messageHistory.get(key).push(message)
HistoryPush(hist, key, m) ==
  IF key \in DOMAIN hist
  THEN [hist EXCEPT ![key] = Append(@, m)]
  ELSE [k \in DOMAIN hist \cup {key} |-> IF k = key THEN <<m>> ELSE hist[k]]

ChatEvent(m) == [kind |-> "chat_message", msg |-> m]

\* the sockets the chat_message handler emits the client's message to
ChatTargets(c, sessionId) == SocketTo(c, SessionRoom(sessionId))

ChatMessage(c, data) ==
  /\ Running
  /\ status[c] = "open"
  /\ IF ~ValidChat(data)
     THEN /\ inbox' = Deliver(inbox, {c}, ErrorEvent("Invalid message format"))
          /\ UNCHANGED <<messageHistory, aiTimers, socketStats, nextId>>
     ELSE IF data.shape = "undefined"
     THEN \* value is undefined: value.sessionId throws after the counter
          \* was updated, and the catch block answers the sender
          /\ socketStats' = [socketStats EXCEPT !.messages = @ + 1]
          /\ inbox' = Deliver(inbox, {c}, ErrorEvent("Failed to process message"))
          /\ UNCHANGED <<messageHistory, aiTimers, nextId>>
     ELSE LET message == [id |-> nextId, sessionId |-> data.sessionId,
                          userId |-> userId[c], ts |-> now, role |-> "user"]
          IN /\ socketStats' = [socketStats EXCEPT !.messages = @ + 1]
             /\ messageHistory' =
                  HistoryPush(messageHistory, data.sessionId, message)
             /\ inbox' = Deliver(inbox, ChatTargets(c, data.sessionId),
                                 ChatEvent(message))
             /\ aiTimers' = Append(aiTimers,
                  [sessionId |-> data.sessionId, re |-> message.id, at |-> now])
             /\ nextId' = nextId + 1
  /\ UNCHANGED <<phase, announced, connectError, nodeEnv, retiredAt, status, userId, rooms, activeSessions,
                 activeProjects, termTimers, consumed, now, crashed>>

\* the setTimeout callback of chat_message.  Timers of one delay run in the
\* order they were set.  messageHistory.get(key) is undefined when the
\* cleanup deleted the entry: push then throws outside any try block.
AITimerFire ==
  /\ Running
  /\ aiTimers # <<>>
  /\ LET t == Head(aiTimers)
         \* re: the message whose content the response's content quotes
         aiResponse == [id |-> nextId, sessionId |-> t.sessionId,
                        userId |-> "claude-ai", ts |-> now, role |-> "assistant",
                        re |-> t.re]
     IN /\ aiTimers' = Tail(aiTimers)
        /\ IF t.sessionId \notin DOMAIN messageHistory
           THEN /\ crashed' = TRUE
                /\ UNCHANGED <<messageHistory, inbox, nextId>>
           ELSE /\ messageHistory' =
                     HistoryPush(messageHistory, t.sessionId, aiResponse)
                /\ inbox' = Deliver(inbox, IoTo(SessionRoom(t.sessionId)),
                                    ChatEvent(aiResponse))
                /\ nextId' = nextId + 1
                /\ UNCHANGED crashed
  /\ UNCHANGED <<phase, announced, connectError, nodeEnv, retiredAt, status, userId, rooms, activeSessions,
                 activeProjects, termTimers, consumed, socketStats, now>>

\* -------------------------------------------------------- terminal_command
TerminalCommand(c, data) ==
  /\ Running
  /\ status[c] = "open"
  /\ IF ~ValidTerminal(data)
     THEN /\ inbox' = Deliver(inbox, {c}, ErrorEvent("Invalid command format"))
          /\ UNCHANGED termTimers
     ELSE IF data.shape = "undefined"
     THEN \* the timer is set before logger.debug reads value.command and throws
          /\ termTimers' = Append(termTimers,
               [socket |-> c, sessionId |-> Missing, throws |-> TRUE,
                at |-> now])
          /\ inbox' = Deliver(inbox, {c}, ErrorEvent("Failed to execute command"))
     ELSE /\ termTimers' = Append(termTimers,
               [socket |-> c, sessionId |-> data.sessionId, throws |-> FALSE,
                at |-> now])
          /\ UNCHANGED inbox
  /\ UNCHANGED <<phase, announced, connectError, nodeEnv, retiredAt, status, userId, rooms, activeSessions,
                 activeProjects, messageHistory, aiTimers, consumed, socketStats,
                 nextId, now, crashed>>

\* the setTimeout callback of terminal_command: socket.emit on the socket of
\* its closure; a closed socket drops the packet
TerminalTimerFire ==
  /\ Running
  /\ termTimers # <<>>
  /\ LET t == Head(termTimers)
     IN /\ termTimers' = Tail(termTimers)
        /\ IF t.throws
           THEN crashed' = TRUE /\ UNCHANGED inbox
           ELSE /\ UNCHANGED crashed
                /\ inbox' = Deliver(inbox, {t.socket} \cap Conns,
                     [kind |-> "terminal_output", sessionId |-> t.sessionId])
  /\ UNCHANGED <<phase, announced, connectError, nodeEnv, retiredAt, status, userId, rooms, activeSessions,
                 activeProjects, messageHistory, aiTimers, consumed, socketStats,
                 nextId, now>>

\* ------------------------------------------------------------- file_update
FileUpdate(c, data) ==
  /\ Running
  /\ status[c] = "open"
  /\ IF ~ValidFile(data)
     THEN inbox' = Deliver(inbox, {c}, ErrorEvent("Invalid file update format"))
     ELSE IF data.shape = "undefined"
     THEN inbox' = Deliver(inbox, {c}, ErrorEvent("Failed to update file"))
     ELSE inbox' = Deliver(inbox, SocketTo(c, ProjectRoom(data.projectId)),
               [kind |-> "file_update", projectId |-> data.projectId,
                userId |-> userId[c]])
  /\ UNCHANGED <<phase, announced, connectError, nodeEnv, retiredAt, status, userId, rooms, activeSessions,
                 activeProjects, messageHistory, aiTimers, termTimers, consumed,
                 socketStats, nextId, now, crashed>>

\* -------------------------------------------------------- tts_notification
TtsNotification(c, data) ==
  /\ Running
  /\ status[c] = "open"
  /\ IF ~ValidTts(data)
     THEN inbox' = Deliver(inbox, {c},
                     ErrorEvent("Invalid TTS notification format"))
     ELSE LET notification == [kind |-> "tts_notification",
                               userId |-> userId[c]]
              sent == Deliver(inbox, IoTo(UserRoom(userId[c])), notification)
          IN inbox' = IF data.shape = "undefined"
                      \* logger.debug reads value.message after the emit
                      THEN Deliver(sent, {c},
                             ErrorEvent("Failed to send TTS notification"))
                      ELSE sent
  /\ UNCHANGED <<phase, announced, connectError, nodeEnv, retiredAt, status, userId, rooms, activeSessions,
                 activeProjects, messageHistory, aiTimers, termTimers, consumed,
                 socketStats, nextId, now, crashed>>

\* ------------------------------------------------------------------ typing
\* no try block: data.sessionId of an absent argument throws out of the
\* listener
Typing(c, data) ==
  /\ status[c] = "open"
  /\ Running
  /\ IF data.shape = "undefined"
     THEN crashed' = TRUE /\ UNCHANGED inbox
     ELSE /\ UNCHANGED crashed
          /\ IF data.sessionId = Falsy
             THEN UNCHANGED inbox
             ELSE inbox' = Deliver(inbox, SocketTo(c, SessionRoom(data.sessionId)),
                    [kind |-> "typing", userId |-> userId[c]])
  /\ UNCHANGED <<phase, announced, connectError, nodeEnv, retiredAt, status, userId, rooms, activeSessions,
                 activeProjects, messageHistory, aiTimers, termTimers, consumed,
                 socketStats, nextId, now>>

\* ----------------------------------------------------------- system_status
SystemStatus(c) ==
  /\ Running
  /\ status[c] = "open"
  /\ inbox' = Deliver(inbox, {c},
       [kind |-> "system_status",
        connectedClients |-> Cardinality({d \in Conns : status[d] = "open"}),
        activeSessions |-> Cardinality(DOMAIN activeSessions),
        activeProjects |-> Cardinality(DOMAIN activeProjects)])
  /\ UNCHANGED <<phase, announced, connectError, nodeEnv, retiredAt, status, userId, rooms, activeSessions,
                 activeProjects, messageHistory, aiTimers, termTimers, consumed,
                 socketStats, nextId, now, crashed>>

\* ------------------------------------------------------ periodic cleanup
\* the setInterval callback: keep the messages newer than the cutoff, delete
\* the entries left empty
CleanupHistory ==
  /\ Running
  /\ LET cutoffTime == now - CutoffTicks
         keep == {k \in DOMAIN messageHistory :
                    FilterRecent(messageHistory[k], cutoffTime) # <<>>}
     IN messageHistory' =
          [k \in keep |-> FilterRecent(messageHistory[k], cutoffTime)]
  /\ UNCHANGED <<phase, announced, connectError, nodeEnv, retiredAt, status, userId, rooms, inbox,
                 activeSessions, activeProjects, aiTimers, termTimers, consumed,
                 socketStats, nextId, now, crashed>>

\* the clock passes a 12 hour mark.  A pending timer is due at most a second
\* after it was set, and Node runs due timers before later ones, so no timer
\* stays pending across two marks.
Tick ==
  /\ Running
  /\ now < MaxTime
  /\ \A i \in DOMAIN aiTimers : aiTimers[i].at = now
  /\ \A i \in DOMAIN termTimers : termTimers[i].at = now
  /\ now' = now + 1
  /\ UNCHANGED <<phase, announced, connectError, nodeEnv, retiredAt, status, userId, rooms, inbox,
                 activeSessions, activeProjects, messageHistory, aiTimers,
                 termTimers, consumed, socketStats, nextId, crashed>>

\* ---------------------------------------------------------------- shutdown
\* process.on('SIGTERM'): io.emit('server_shutdown', ...) to every connected
\* socket, then setTimeout(..., 5000)
Sigterm ==
  /\ Running
  /\ phase = "running"
  /\ phase' = "announced"
  /\ announced' = TRUE
  /\ inbox' = Deliver(inbox, {c \in Conns : status[c] = "open"},
                      [kind |-> "server_shutdown"])
  /\ UNCHANGED <<connectError, nodeEnv, retiredAt, status, userId, rooms,
                 activeSessions, activeProjects, messageHistory, aiTimers,
                 termTimers, consumed, socketStats, nextId, now, crashed>>

\* the callback of SIGTERM's timer: server.close(...) stops the server from
\* accepting connections
GraceTimerFire ==
  /\ Running
  /\ phase = "announced"
  /\ phase' = "closing"
  /\ UNCHANGED <<announced, connectError, nodeEnv, retiredAt, status, userId,
                 rooms, inbox, activeSessions, activeProjects, messageHistory,
                 aiTimers, termTimers, consumed, socketStats, nextId, now,
                 crashed>>

\* the callback of server.close runs when the connections have ended:
\* process.exit(0)
ServerClosed ==
  /\ Running
  /\ phase = "closing"
  /\ \A c \in Conns : status[c] = "idle"
  /\ phase' = "exited"
  /\ UNCHANGED <<announced, connectError, nodeEnv, retiredAt, status, userId,
                 rooms, inbox, activeSessions, activeProjects, messageHistory,
                 aiTimers, termTimers, consumed, socketStats, nextId, now,
                 crashed>>

\* process.on('SIGINT'): process.exit(0)
Sigint ==
  /\ Running
  /\ phase' = "exited"
  /\ UNCHANGED <<announced, connectError, nodeEnv, retiredAt, status, userId,
                 rooms, inbox, activeSessions, activeProjects, messageHistory,
                 aiTimers, termTimers, consumed, socketStats, nextId, now,
                 crashed>>

\* ------------------------------------------------------------ specification
\* a step a client takes is counted; a step of the hub's own (a timer, the
\* clock) is not
Step(max) ==
  /\ ops < max /\ ops' = ops + 1
  /\ UNCHANGED <<ttsVars, retryVars, apiVars>>
Own ==
  /\ ops' = ops
  /\ UNCHANGED <<ttsVars, retryVars, apiVars>>

\* every handler of the hub; the clock stands still, no limiter window ends
Next ==
  \/ \E c \in Conns : \E tok \in TokensOf[c] : Step(MaxOps) /\ Connect(c, tok)
  \/ \E c \in Conns : Step(MaxOps) /\ Disconnect(c)
  \/ \E c \in Conns : \E s \in SessionIds \cup {Falsy} :
       Step(MaxOps) /\ JoinSession(c, s)
  \/ \E c \in Conns : \E p \in ProjectIds \cup {Falsy} :
       Step(MaxOps) /\ JoinProject(c, p)
  \/ \E c \in Conns : \E d \in ChatPayloads : Step(MaxOps) /\ ChatMessage(c, d)
  \/ \E c \in Conns : \E d \in TerminalPayloads :
       Step(MaxOps) /\ TerminalCommand(c, d)
  \/ \E c \in Conns : \E d \in FilePayloads : Step(MaxOps) /\ FileUpdate(c, d)
  \/ \E c \in Conns : \E d \in TtsPayloads :
       Step(MaxOps) /\ TtsNotification(c, d)
  \/ \E c \in Conns : \E d \in TypingPayloads : Step(MaxOps) /\ Typing(c, d)
  \/ \E c \in Conns : Step(MaxOps) /\ SystemStatus(c)
  \/ Own /\ AITimerFire
  \/ Own /\ TerminalTimerFire

Spec == Init /\ [][Next]_vars

\* ---------------------------------------------------------------- scenarios
\* The session chat with the clock and the history cleanup: three clients
\* connect, join session s1, talk and leave.
NextChat ==
  \/ \E c \in Conns : \E tok \in TokensOf[c] \ {"bad"} :
       Step(MaxChatOps) /\ Connect(c, tok)
  \/ \E c \in Conns : Step(MaxChatOps) /\ Disconnect(c)
  \/ \E c \in Conns : Step(MaxChatOps) /\ JoinSession(c, "s1")
  \/ \E c \in Conns : \E d \in {ChatBody(1, "s1"), ChatBody(0, "s1")} :
       Step(MaxChatOps) /\ ChatMessage(c, d)
  \/ Own /\ AITimerFire
  \/ Own /\ CleanupHistory
  \/ Own /\ Tick

SpecChat == Init /\ [][NextChat]_vars

\* The session chat while the clock stands still: clients join session s1,
\* talk, disconnect and come back.
NextSession ==
  \/ \E c \in Conns : \E tok \in TokensOf[c] \ {"bad"} :
       Step(MaxSessionOps) /\ Connect(c, tok)
  \/ \E c \in Conns : Step(MaxSessionOps) /\ Disconnect(c)
  \/ \E c \in Conns : Step(MaxSessionOps) /\ JoinSession(c, "s1")
  \/ \E c \in Conns : Step(MaxSessionOps) /\ ChatMessage(c, ChatBody(1, "s1"))
  \/ Own /\ AITimerFire

SpecSession == Init /\ [][NextSession]_vars

\* Membership alone: clients connect, join session and project rooms, leave.
NextRooms ==
  \/ \E c \in Conns : \E tok \in TokensOf[c] \ {"bad"} :
       Step(MaxRoomOps) /\ Connect(c, tok)
  \/ \E c \in Conns : Step(MaxRoomOps) /\ Disconnect(c)
  \/ \E c \in Conns : \E s \in SessionIds \cup {Falsy} :
       Step(MaxRoomOps) /\ JoinSession(c, s)
  \/ \E c \in Conns : \E p \in ProjectIds \cup {Falsy} :
       Step(MaxRoomOps) /\ JoinProject(c, p)

SpecRooms == Init /\ [][NextRooms]_vars

\* A burst: client c1 sends chat messages into session s1 one after the
\* other, each answered before the next, within one limiter window and one
\* tick of the clock; client c2 joins the session at some point.
NextFlood ==
  \/ \E c \in {"c1", "c2"} : Own /\ Connect(c, "tokA")
  \/ /\ SessionRoom("s1") \notin rooms["c2"]
     /\ Own /\ JoinSession("c2", "s1")
  \/ /\ aiTimers = <<>>
     /\ socketStats.messages < Points + MaxExtra
     /\ Own /\ ChatMessage("c1", ChatBody(1, "s1"))
  \/ Own /\ AITimerFire

SpecFlood == Init /\ [][NextFlood]_vars

\* The handshake alone: connection attempts from two addresses, windows
\* ending at any time.
NextRate ==
  \/ \E c \in Conns : \E tok \in TokensOf[c] :
       /\ consumed[AddrOf[c]] < Points + MaxOver
       /\ Own /\ Connect(c, tok)
  \/ \E c \in Conns : Own /\ Disconnect(c)
  \/ \E a \in Addrs : Own /\ WindowExpire(a)

SpecRate == Init /\ [][NextRate]_vars

\* The handshake under every setting of NODE_ENV: attempts with every
\* credential, from address a1 until its quota is spent, a few from a2;
\* admitted clients join session s1 and leave.
InitAuth == \E env \in Envs : InitHub(env)

NextAuth ==
  \/ \E c \in {"c1", "c2"} : \E tok \in TokensOf[c] :
       /\ consumed["a1"] < Points + MaxOver
       /\ Own /\ Connect(c, tok)
  \/ \E tok \in TokensOf["c3"] :
       /\ consumed["a2"] < MaxOver
       /\ Own /\ Connect("c3", tok)
  \/ \E c \in Conns : Own /\ Disconnect(c)
  \/ \E c \in Conns :
       /\ SessionRoom("s1") \notin rooms[c]
       /\ Own /\ JoinSession(c, "s1")

SpecAuth == InitAuth /\ [][NextAuth]_vars

\* The end of the process: clients connect, join session s1, talk, and the
\* process receives signals or meets an event that throws.
NextShutdown ==
  \/ \E c \in Conns : \E tok \in TokensOf[c] \ {"bad"} :
       Step(MaxShutdownOps) /\ Connect(c, tok)
  \/ \E c \in Conns : Step(MaxShutdownOps) /\ Disconnect(c)
  \/ \E c \in Conns : Step(MaxShutdownOps) /\ JoinSession(c, "s1")
  \/ \E c \in Conns : Step(MaxShutdownOps) /\ ChatMessage(c, ChatBody(1, "s1"))
  \/ \E c \in Conns : \E d \in TypingPayloads :
       Step(MaxShutdownOps) /\ Typing(c, d)
  \/ Own /\ AITimerFire
  \/ Own /\ Sigterm
  \/ Own /\ GraceTimerFire
  \/ Own /\ ServerClosed
  \/ Own /\ Sigint

SpecShutdown == Init /\ [][NextShutdown]_vars

\* The registries and their report: clients connect, join session s1 and
\* project p1, ask for the status, leave.
NextRegistry ==
  \/ \E c \in Conns : \E tok \in TokensOf[c] \ {"bad"} :
       Step(MaxRegistryOps) /\ Connect(c, tok)
  \/ \E c \in Conns : Step(MaxRegistryOps) /\ Disconnect(c)
  \/ \E c \in Conns : Step(MaxRegistryOps) /\ JoinSession(c, "s1")
  \/ \E c \in Conns : Step(MaxRegistryOps) /\ JoinProject(c, "p1")
  \/ \E c \in Conns : Step(MaxRegistryOps) /\ SystemStatus(c)

SpecRegistry == Init /\ [][NextRegistry]_vars

\* The follow-ups: clients connect, join sessions, talk and leave, and every
\* pending AI timer runs in the end, as Node runs every timer that is due
\* while the process lives.
NextFollowUp ==
  \/ \E c \in Conns : \E tok \in TokensOf[c] \ {"bad"} :
       Step(MaxFollowUpOps) /\ Connect(c, tok)
  \/ \E c \in Conns : Step(MaxFollowUpOps) /\ Disconnect(c)
  \/ \E c \in Conns : \E s \in SessionIds :
       Step(MaxFollowUpOps) /\ JoinSession(c, s)
  \/ \E c \in Conns : \E s \in SessionIds :
       Step(MaxFollowUpOps) /\ ChatMessage(c, ChatBody(1, s))
  \/ Own /\ AITimerFire

SpecFollowUp ==
  Init /\ [][NextFollowUp]_vars /\ WF_vars(Own /\ AITimerFire)

\* ================================================================== claims
HistoryOf(hist, s) == IF s \in DOMAIN hist THEN hist[s] ELSE <<>>
History(s) == HistoryOf(messageHistory, s)
InSeq(h, m) == \E k \in DOMAIN h : h[k] = m
PosIn(h, m) == CHOOSE k \in DOMAIN h : h[k] = m
IsChat(e, s) == e.kind = "chat_message" /\ e.msg.sessionId = s
\* connection c has received chat event a and later chat event b
SawBefore(c, a, b) ==
  \E i, j \in DOMAIN inbox[c] :
    /\ i < j
    /\ inbox[c][i].kind = "chat_message" /\ inbox[c][i].msg = a
    /\ inbox[c][j].kind = "chat_message" /\ inbox[c][j].msg = b
\* the events a step added to the inbox of c
Added(c) == SubSeq(inbox'[c], Len(inbox[c]) + 1, Len(inbox'[c]))

\* C1: the chat events of a session that a connection has received are in the
\* order in which they were appended to the session's history, and no two
\* connections have received two events of the session in opposite orders.
C1_Ordering ==
  \A s \in SessionIds : \A c \in Conns : \A i, j \in DOMAIN inbox[c] :
    (i < j /\ IsChat(inbox[c][i], s) /\ IsChat(inbox[c][j], s)) =>
      LET a == inbox[c][i].msg
          b == inbox[c][j].msg
      IN /\ a # b
         /\ (InSeq(History(s), a) /\ InSeq(History(s), b))
              => PosIn(History(s), a) < PosIn(History(s), b)
         /\ \A d \in Conns : ~SawBefore(d, b, a)

\* two connections have both received the same two events of session s1
C1_Witness ==
  \E c, d \in Conns : \E i, j \in DOMAIN inbox[c] :
    /\ c # d /\ i < j
    /\ IsChat(inbox[c][i], "s1") /\ IsChat(inbox[c][j], "s1")
    /\ SawBefore(d, inbox[c][i].msg, inbox[c][j].msg)

\* C2: when a connection that joined session s1 together with another one
\* sends a valid chat_message, every socket of the room, the sender's
\* included, receives it; and when the
\* AI response is generated every socket of the room receives it after that.
C2_AllMembersReceive ==
  [][/\ \A c \in Conns :
          (/\ ChatMessage(c, ChatBody(1, "s1"))
           /\ SessionRoom("s1") \in rooms[c]
           /\ RoomSockets(SessionRoom("s1")) \ {c} # {})
            => \A d \in RoomSockets(SessionRoom("s1")) :
                 inbox'[d] = Append(inbox[d], ChatEvent(Last(HistoryOf(messageHistory', "s1"))))
     /\ (AITimerFire /\ ~crashed')
            => \A d \in RoomSockets(SessionRoom(Head(aiTimers).sessionId)) :
                 inbox'[d] = Append(inbox[d],
                   ChatEvent(Last(HistoryOf(messageHistory',
                                            Head(aiTimers).sessionId))))
    ]_vars

\* C3: a join_session adds one session_history event to the inbox of the
\* joining connection and nothing to any other inbox; the event carries the
\* whole stored history of the session (it is shorter than the replay bound),
\* oldest first.
C3_ReplayAtJoin ==
  [][\A c \in Conns : \A s \in SessionIds :
       JoinSession(c, s) =>
         /\ \A d \in Conns \ {c} : inbox'[d] = inbox[d]
         /\ Len(Added(c)) = 2
         /\ Added(c)[1].kind = "session_history"
         /\ Added(c)[1].sessionId = s
         /\ Added(c)[2].kind = "session_joined"
         /\ Len(History(s)) <= ReplayLimit => Added(c)[1].messages = History(s)
         /\ \A i, j \in DOMAIN Added(c)[1].messages :
              i < j => Added(c)[1].messages[i].id < Added(c)[1].messages[j].id
    ]_vars

\* a connection holds a replay of the message and its AI response while
\* another connection is open and holds none
C3_Witness ==
  \E c, d \in Conns : \E i \in DOMAIN inbox[c] :
    /\ inbox[c][i].kind = "session_history"
    /\ Len(inbox[c][i].messages) >= 2
    /\ d # c /\ status[d] = "open"
    /\ \A k \in DOMAIN inbox[d] : inbox[d][k].kind # "session_history"

\* C4: when a session's history holds more messages than the replay size, the
\* replay of a join carries exactly the ReplayLimit most recent of them,
\* oldest first, and not the oldest one.
C4_BoundedReplay ==
  [][\A c \in Conns : \A s \in SessionIds :
       (JoinSession(c, s) /\ Len(History(s)) > ReplayLimit) =>
         LET h == History(s)
             replay == Added(c)[1].messages
         IN /\ Len(replay) = ReplayLimit
            /\ \A k \in 1..ReplayLimit :
                 replay[k] = h[Len(h) - ReplayLimit + k]
            /\ ~InSeq(replay, h[1])
    ]_vars

\* c2 joined when the history held ReplayLimit + 1 messages (ids 1 to 51):
\* its replay starts at the second
C4_Witness ==
  /\ Len(inbox["c2"]) >= 1
  /\ inbox["c2"][1].kind = "session_history"
  /\ Len(inbox["c2"][1].messages) = ReplayLimit
  /\ inbox["c2"][1].messages[1].id = 2
  /\ inbox["c2"][1].messages[ReplayLimit].id = ReplayLimit + 1

\* C5: the stored history of a session never holds more than ReplayLimit
\* entries.
C5_StoredHistoryBounded ==
  \A s \in DOMAIN messageHistory : Len(messageHistory[s]) <= ReplayLimit

\* C6: the replay of a join carries no message that was accepted before the
\* session's room was last retired.
C6_FreshAfterRetirement ==
  [][\A c \in Conns : \A s \in SessionIds :
       JoinSession(c, s) =>
         \A k \in DOMAIN Added(c)[1].messages :
           Added(c)[1].messages[k].id >= retiredAt[s]
    ]_vars

\* C7: a join_session or join_project by a connection whose identity is
\* already a member of the room leaves both registries as they are, and when
\* the socket itself is already in the room its rooms too.
C7_IdempotentJoin ==
  [][\A c \in Conns :
       /\ \A s \in SessionIds :
            (/\ JoinSession(c, s)
             /\ s \in DOMAIN activeSessions
             /\ userId[c] \in activeSessions[s])
            => /\ activeSessions' = activeSessions
               /\ activeProjects' = activeProjects
               /\ SessionRoom(s) \in rooms[c] => rooms' = rooms
       /\ \A p \in ProjectIds :
            (/\ JoinProject(c, p)
             /\ p \in DOMAIN activeProjects
             /\ userId[c] \in activeProjects[p])
            => /\ activeProjects' = activeProjects
               /\ activeSessions' = activeSessions
               /\ ProjectRoom(p) \in rooms[c] => rooms' = rooms
    ]_vars

\* one connection has joined session s1 twice and project p1 twice
C7_Witness ==
  \E c \in Conns : \E i, j, k, l \in DOMAIN inbox[c] :
    /\ i < j /\ k < l
    /\ inbox[c][i] = [kind |-> "session_joined", sessionId |-> "s1"]
    /\ inbox[c][j] = [kind |-> "session_joined", sessionId |-> "s1"]
    /\ inbox[c][k] = [kind |-> "project_joined", projectId |-> "p1"]
    /\ inbox[c][l] = [kind |-> "project_joined", projectId |-> "p1"]

\* the bodies that do not meet the schema of their kind (required fields,
\* lengths, allowed values); an absent body has none of the required fields
ChatBodyFails(d) ==
  \/ d.shape = "undefined"
  \/ d.content < 1 \/ d.content > 10000
  \/ d.sessionId \notin SessionIds
TerminalBodyFails(d) ==
  \/ d.shape = "undefined"
  \/ d.command < 1 \/ d.command > 1000
  \/ d.sessionId \notin SessionIds
FileBodyFails(d) ==
  \/ d.shape = "undefined"
  \/ d.filePath < 1 \/ d.content < 1 \/ d.projectId = Missing
  \/ d.action \notin {"create", "update", "delete"}
TtsBodyFails(d) ==
  \/ d.shape = "undefined"
  \/ d.message < 1 \/ d.message > 500
  \/ d.type \notin {"info", "success", "warning", "error"}
  \/ d.priority \notin {"normal", "urgent", Missing}

\* what the handling of a failing event of connection c may do: one error
\* event to c, nothing to anyone else, no append, no timer
Isolated(c) ==
  /\ Len(Added(c)) = 1
  /\ Added(c)[1].kind = "error"
  /\ \A d \in Conns \ {c} : inbox'[d] = inbox[d]
  /\ messageHistory' = messageHistory
  /\ aiTimers' = aiTimers
  /\ termTimers' = termTimers

\* C8: an event whose body fails its schema is not appended, not delivered to
\* another connection, schedules nothing, and is answered by one error event
\* to its sender.
C8_ValidationIsolation ==
  [][\A c \in Conns :
       /\ \A d \in ChatPayloads :
            (ChatBodyFails(d) /\ ChatMessage(c, d)) => Isolated(c)
       /\ \A d \in TerminalPayloads :
            (TerminalBodyFails(d) /\ TerminalCommand(c, d)) => Isolated(c)
       /\ \A d \in FilePayloads :
            (FileBodyFails(d) /\ FileUpdate(c, d)) => Isolated(c)
       /\ \A d \in TtsPayloads :
            (TtsBodyFails(d) /\ TtsNotification(c, d)) => Isolated(c)
    ]_vars

\* the number of messages of clients in the history of session s
RECURSIVE UserMessages(_)
UserMessages(h) ==
  IF h = <<>> THEN 0
  ELSE (IF Head(h).role = "user" THEN 1 ELSE 0) + UserMessages(Tail(h))

\* C9: a valid chat message sent when Points chat messages from the same
\* address were already accepted in the current window of the limiter is not
\* appended to the history, reaches no other connection, schedules no
\* follow-up, and is answered by one error event to its sender.
C9_ChatQuota ==
  [][\A c \in Conns :
       (/\ ChatMessage(c, ChatBody(1, "s1"))
        /\ UserMessages(History("s1")) >= Points)
       => Isolated(c)
    ]_vars

ClientEvent(c) ==
  \/ \E s \in SessionIds : JoinSession(c, s)
  \/ \E p \in ProjectIds : JoinProject(c, p)
  \/ \E d \in ChatPayloads : ChatMessage(c, d)
  \/ \E d \in TerminalPayloads : TerminalCommand(c, d)
  \/ \E d \in FilePayloads : FileUpdate(c, d)
  \/ \E d \in TtsPayloads : TtsNotification(c, d)
  \/ \E d \in TypingPayloads : Typing(c, d)
  \/ SystemStatus(c)

\* C11: a connection attempt that presents an invalid credential, or no
\* credential when NODE_ENV is production, or that comes when its address has
\* spent its quota, is refused with an error and changes neither the
\* connections counter nor any room nor any member set; and a connection
\* that is not open has no room, no identity, and none of its events is
\* processed.
C11_FailedHandshakeUnregistered ==
  /\ [][\A c \in Conns : \A tok \in Tokens :
            (/\ Connect(c, tok)
             /\ \/ tok = "bad"
                \/ tok = "none" /\ nodeEnv = "production"
                \/ consumed[AddrOf[c]] >= Points)
            => /\ connectError' # "none"
               /\ status'[c] = "idle"
               /\ rooms' = rooms /\ rooms'[c] = {}
               /\ userId' = userId
               /\ socketStats' = socketStats
               /\ activeSessions' = activeSessions
               /\ activeProjects' = activeProjects
       ]_vars
  /\ [](\A c \in Conns :
          status[c] = "idle" =>
            /\ rooms[c] = {} /\ userId[c] = "none"
            /\ ~ENABLED ClientEvent(c))

\* the attempt of c1 beyond the quota of its address was refused while c2,
\* admitted earlier, is connected
C11_Witness ==
  /\ connectError = "Rate limit exceeded"
  /\ consumed["a1"] > Points
  /\ status["c1"] = "idle" /\ status["c2"] = "open"
  /\ socketStats.connections = 1

\* C12: a connection attempt with a credential that does not verify is
\* refused with 'Invalid authentication token' under every setting of
\* NODE_ENV; it gets no identity and consumes no point.
C12_InvalidCredentialRejected ==
  [][\A c \in Conns :
       Connect(c, "bad") =>
         /\ connectError' = "Invalid authentication token"
         /\ status'[c] = "idle"
         /\ userId'[c] = "none"
         /\ consumed' = consumed
    ]_vars

\* an invalid credential was refused in development mode
C12_Witness ==
  /\ connectError = "Invalid authentication token"
  /\ nodeEnv = "development"
  /\ \A c \in Conns : status[c] = "idle"

\* C13: unless NODE_ENV was set to development, a connection attempt without
\* a credential is refused.
C13_PermissiveIsOptIn ==
  [][\A c \in Conns :
       (Connect(c, "none") /\ nodeEnv # "development") =>
         /\ status'[c] = "idle"
         /\ connectError' = "Authentication required"
    ]_vars

\* C14: every identity in the member set of a session or a project has a
\* connection that is open.
C14_NoStaleMembers ==
  /\ \A s \in DOMAIN activeSessions : \A u \in activeSessions[s] :
       \E c \in Conns : status[c] = "open" /\ userId[c] = u
  /\ \A p \in DOMAIN activeProjects : \A u \in activeProjects[p] :
       \E c \in Conns : status[c] = "open" /\ userId[c] = u

\* the only member of session s1 closed its connection while the anonymous
\* client is a member of project p1
C14_Witness ==
  /\ retiredAt["s1"] > 0
  /\ "s1" \notin DOMAIN activeSessions
  /\ "p1" \in DOMAIN activeProjects /\ activeProjects["p1"] = {"anon_c3"}
  /\ status["c1"] = "idle" /\ status["c2"] = "idle"

\* the identities that hold an open connection whose memberships include
\* the room
RoomMembers(room) == {userId[c] : c \in RoomSockets(room)}

\* C15: every room in the session registry and in the project registry has a
\* member, and the counts a system_status answer carries are the numbers of
\* session rooms and of project rooms that have a member at the time of the
\* request.
C15_EmptyRoomsRetired ==
  /\ [](/\ \A s \in DOMAIN activeSessions : activeSessions[s] # {}
        /\ \A p \in DOMAIN activeProjects : activeProjects[p] # {})
  /\ [][\A c \in Conns :
          SystemStatus(c) =>
            /\ Len(Added(c)) = 1
            /\ Added(c)[1].kind = "system_status"
            /\ Added(c)[1].activeSessions =
                 Cardinality({s \in SessionIds :
                                RoomMembers(SessionRoom(s)) # {}})
            /\ Added(c)[1].activeProjects =
                 Cardinality({q \in ProjectIds :
                                RoomMembers(ProjectRoom(q)) # {}})
       ]_vars

\* C16: every message of a history carries a sequence number, and the
\* sequence numbers of a history increase strictly from each entry to the
\* next.
C16_SequenceNumbers ==
  \A s \in DOMAIN messageHistory : \A k \in DOMAIN messageHistory[s] :
    /\ "seq" \in DOMAIN messageHistory[s][k]
    /\ k > 1 => messageHistory[s][k - 1].seq < messageHistory[s][k].seq

\* the ids a behaviour of SpecFollowUp can give to messages
MessageIds == 1..(2 * MaxFollowUpOps + 2)
\* the follow-ups in the histories that answer message id
FollowUps(id) ==
  {<<s, k>> \in (DOMAIN messageHistory) \X MessageIds :
     /\ k \in DOMAIN messageHistory[s]
     /\ messageHistory[s][k].role = "assistant"
     /\ messageHistory[s][k].re = id}
\* the pending timers that will answer message id
PendingFor(id) == {i \in DOMAIN aiTimers : aiTimers[i].re = id}

C19_FailureIsolation ==
  [][/\ \A c \in Conns :
          ClientEvent(c) =>
            /\ ~crashed'
            /\ (Len(Added(c)) > 0 /\ Last(Added(c)).kind = "error") =>
                 /\ rooms' = rooms
                 /\ activeSessions' = activeSessions
                 /\ activeProjects' = activeProjects
                 /\ messageHistory' = messageHistory
     /\ (AITimerFire \/ TerminalTimerFire) => ~crashed'
    ]_vars

\* C20: the process ends (server.close was called, process.exit was called,
\* or an exception escaped) only after the shutdown announcement was
\* emitted to the connected clients.
C20_AnnouncedShutdown ==
  (phase \in {"closing", "exited"} \/ crashed) => announced

\* C21: every connection attempt, whatever credential it presents, consumes
\* one point of the quota of its address.
C21_LimiterFirst ==
  [][\A c \in Conns : \A tok \in Tokens :
       Connect(c, tok) =>
         consumed'[AddrOf[c]] = consumed[AddrOf[c]] + 1
    ]_vars

C23_ConnectionsCounter ==
  /\ socketStats.connections =
       Cardinality({c \in Conns : status[c] = "open"})
  /\ socketStats.connections >= 0

\* connections were admitted, the last attempt among them, and all have
\* closed again: the counter is back at 0
C23_Witness ==
  /\ consumed["a1"] > 1
  /\ connectError = "none"
  /\ \A c \in Conns : status[c] = "idle"
  /\ socketStats.connections = 0

\* the identities with an open connection that joined the room
JoinedIdentities(room) ==
  {userId[c] : c \in {e \in Conns : status[e] = "open" /\ room \in rooms[e]}}

\* C25: an identity is in the member set of a room exactly when one of its
\* open connections has joined that room.
C25_MembershipFollowsConnections ==
  /\ \A s \in SessionIds :
       (IF s \in DOMAIN activeSessions THEN activeSessions[s] ELSE {})
         = JoinedIdentities(SessionRoom(s))
  /\ \A p \in ProjectIds :
       (IF p \in DOMAIN activeProjects THEN activeProjects[p] ELSE {})
         = JoinedIdentities(ProjectRoom(p))

\* the events of one kind among those a step adds to the inbox of e
AddedOfKind(e, kind) ==
  {i \in DOMAIN Added(e) : Added(e)[i].kind = kind}

\* C26: a chat_message or typing event of a connection that has not joined
\* the target session is not appended to the history and is delivered to
\* nobody.
C26_OnlyJoinedPublish ==
  [][/\ \A c \in Conns : \A d \in ChatPayloads :
          (ChatMessage(c, d) /\ SessionRoom(d.sessionId) \notin rooms[c])
          => /\ messageHistory' = messageHistory
             /\ \A e \in Conns \ {c} : inbox'[e] = inbox[e]
     /\ \A c \in Conns : \A d \in TypingPayloads :
          (Typing(c, d) /\ SessionRoom(d.sessionId) \notin rooms[c])
          => \A e \in Conns \ {c} : inbox'[e] = inbox[e]
    ]_vars

C28_HistoryOutlivesFollowUp ==
  /\ [](\A i \in DOMAIN aiTimers :
          aiTimers[i].sessionId \in DOMAIN messageHistory)
  /\ [][/\ CleanupHistory
           => \A i \in DOMAIN aiTimers :
                aiTimers[i].sessionId \in DOMAIN messageHistory'
        /\ AITimerFire => ~crashed'
       ]_vars

\* the cleanup removed the older messages of s1, and the follow-up of the
\* only message left is pending
C28_Witness ==
  /\ aiTimers # <<>>
  /\ Len(History("s1")) = 1
  /\ History("s1")[1].id > 1
  /\ aiTimers[1].re = History("s1")[1].id

\* ============================================================ the TTS script
\* acquire_lock: local timeout=10
LockTimeout == 10
\* speak_text skips a filtered text shorter than this
MinSpeakLen == 10
\* lengths of the text filter_content leaves
FilteredLens == {0, MinSpeakLen - 1, MinSpeakLen}
Priorities == {"normal", "urgent"}

\* a run of the script calls speak_text "$text" "$priority"
SpeakText(p, enabled, len, priority) ==
  /\ ttsPc[p] = "idle"
  /\ IF ~enabled \/ len < MinSpeakLen
     THEN ttsPc' = [ttsPc EXCEPT ![p] = "returned"] /\ UNCHANGED timeout
     ELSE IF priority = "urgent"
     THEN ttsPc' = [ttsPc EXCEPT ![p] = "pkill"] /\ UNCHANGED timeout
     ELSE /\ ttsPc' = [ttsPc EXCEPT ![p] = "acquire"]
          /\ timeout' = [timeout EXCEPT ![p] = LockTimeout]
  /\ UNCHANGED <<ttsLock, saying>>
  /\ UNCHANGED <<hubVars, retryVars, apiVars>>

\* pkill -f "say" || true: every playing say process ends.  A run whose
\* foreground say was killed goes on to release its lock (by the next
\* command, or by the EXIT trap when set -e ends the script).
Pkill(p) ==
  /\ ttsPc[p] = "pkill"
  /\ saying' = {}
  /\ ttsPc' = [q \in Scripts |->
        IF q = p THEN "spawn"
        ELSE IF ttsPc[q] = "speaking" THEN "release"
        ELSE ttsPc[q]]
  /\ UNCHANGED <<ttsLock, timeout>>
  /\ UNCHANGED <<hubVars, retryVars, apiVars>>

\* say ... & ; return 0: the playback runs in the background, no lock taken
SayInBackground(p) ==
  /\ ttsPc[p] = "spawn"
  /\ saying' = saying \cup {p}
  /\ ttsPc' = [ttsPc EXCEPT ![p] = "returned"]
  /\ UNCHANGED <<ttsLock, timeout>>
  /\ UNCHANGED <<hubVars, retryVars, apiVars>>

\* one round of acquire_lock's loop: mkdir "$TTS_LOCK_FILE" succeeds when the
\* directory does not exist; otherwise sleep 0.5, count down, and give up
\* (speak_text then says nothing) when the counter reaches 0
AcquireLock(p) ==
  /\ ttsPc[p] = "acquire"
  /\ IF ~ttsLock
     THEN /\ ttsLock' = TRUE
          /\ ttsPc' = [ttsPc EXCEPT ![p] = "locked"]
          /\ UNCHANGED timeout
     ELSE /\ timeout' = [timeout EXCEPT ![p] = @ - 1]
          /\ ttsPc' = [ttsPc EXCEPT ![p] =
                IF timeout[p] - 1 > 0 THEN "acquire" ELSE "returned"]
          /\ UNCHANGED ttsLock
  /\ UNCHANGED saying
  /\ UNCHANGED <<hubVars, retryVars, apiVars>>

\* the lock holder starts say in the foreground
SayInForeground(p) ==
  /\ ttsPc[p] = "locked"
  /\ saying' = saying \cup {p}
  /\ ttsPc' = [ttsPc EXCEPT ![p] = "speaking"]
  /\ UNCHANGED <<ttsLock, timeout>>
  /\ UNCHANGED <<hubVars, retryVars, apiVars>>

\* a say process finishes its text
SayEnds(p) ==
  /\ p \in saying
  /\ saying' = saying \ {p}
  /\ ttsPc' = [ttsPc EXCEPT ![p] = IF @ = "speaking" THEN "release" ELSE @]
  /\ UNCHANGED <<ttsLock, timeout>>
  /\ UNCHANGED <<hubVars, retryVars, apiVars>>

\* release_lock: rmdir "$TTS_LOCK_FILE"
ReleaseLock(p) ==
  /\ ttsPc[p] = "release"
  /\ ttsLock' = FALSE
  /\ ttsPc' = [ttsPc EXCEPT ![p] = "returned"]
  /\ UNCHANGED <<timeout, saying>>
  /\ UNCHANGED <<hubVars, retryVars, apiVars>>

NextTts ==
  \/ \E p \in Scripts : \E enabled \in BOOLEAN : \E len \in FilteredLens :
       \E priority \in Priorities : SpeakText(p, enabled, len, priority)
  \/ \E p \in Scripts : Pkill(p)
  \/ \E p \in Scripts : SayInBackground(p)
  \/ \E p \in Scripts : AcquireLock(p)
  \/ \E p \in Scripts : SayInForeground(p)
  \/ \E p \in Scripts : SayEnds(p)
  \/ \E p \in Scripts : ReleaseLock(p)

SpecTts == Init /\ [][NextTts]_vars

\* C24: at no time are two say playbacks running.
C24_NoOverlappingSpeech == Cardinality(saying) <= 1

\* ===================================================== BaseErrorHandler.retry
\* options.maxRetries
maxRetries == 3
\* error.category of the error a call was made for
Categories == {"NETWORK", "API", "WEBSOCKET", "VALIDATION"}
retryableCategories == {"NETWORK", "API", "WEBSOCKET"}

\* canRetry(error, context)
canRetry(cat) ==
  /\ cat \in retryableCategories
  /\ retryAttempts < maxRetries

\* retry() up to its first await: throw when the key's attempts are used up,
\* else count one attempt and wait for the backoff delay
RetryEnter(k) ==
  IF retryAttempts >= maxRetries
  THEN /\ retryPc' = [retryPc EXCEPT ![k] = "threw"]
       /\ UNCHANGED retryAttempts
  ELSE /\ retryAttempts' = retryAttempts + 1
       /\ retryPc' = [retryPc EXCEPT ![k] = "delay"]

\* a caller calls retry(operation, error, context)
retry(k, cat) ==
  /\ retryPc[k] = "idle"
  /\ category' = [category EXCEPT ![k] = cat]
  /\ RetryEnter(k)
  /\ UNCHANGED invoked
  /\ UNCHANGED <<hubVars, ttsVars, apiVars>>

\* the delay is over: operation() is called
delay(k) ==
  /\ retryPc[k] = "delay"
  /\ retryPc' = [retryPc EXCEPT ![k] = "operation"]
  /\ invoked' = [invoked EXCEPT ![k] = @ + 1]
  /\ UNCHANGED <<retryAttempts, category>>
  /\ UNCHANGED <<hubVars, ttsVars, apiVars>>

\* operation() resolves: this.retryAttempts.delete(key); return result
OperationResolves(k) ==
  /\ retryPc[k] = "operation"
  /\ retryAttempts' = 0
  /\ retryPc' = [retryPc EXCEPT ![k] = "returned"]
  /\ UNCHANGED <<invoked, category>>
  /\ UNCHANGED <<hubVars, ttsVars, apiVars>>

\* operation() rejects: retry again when canRetry, else rethrow
OperationRejects(k) ==
  /\ retryPc[k] = "operation"
  /\ IF canRetry(category[k])
     THEN RetryEnter(k)
     ELSE /\ retryPc' = [retryPc EXCEPT ![k] = "threw"]
          /\ UNCHANGED retryAttempts
  /\ UNCHANGED <<invoked, category>>
  /\ UNCHANGED <<hubVars, ttsVars, apiVars>>

NextRetry ==
  \/ \E k \in Callers : \E cat \in Categories : retry(k, cat)
  \/ \E k \in Callers : delay(k)
  \/ \E k \in Callers : OperationResolves(k)
  \/ \E k \in Callers : OperationRejects(k)

SpecRetry == Init /\ [][NextRetry]_vars

\* C29: no call of retry invokes the operation more than maxRetries times,
\* and the attempt counter of the key never exceeds maxRetries.
C29_RetryBounded ==
  /\ \A k \in Callers : invoked[k] <= maxRetries
  /\ retryAttempts <= maxRetries

\* ========================================================= APIService.request
\* the largest API_CONFIG.RETRY_ATTEMPTS considered
MaxRetryAttempts == 3

\* HTTP_STATUS.UNAUTHORIZED
UNAUTHORIZED == 401
\* response statuses: one that is ok, UNAUTHORIZED, and another failure
Statuses == {200, UNAUTHORIZED, 500}

\* message strings, as the words they consist of
AbortMessage == <<"Aborted">>
NetworkMessage == <<"Network", "request", "failed">>
ParseMessage == <<"JSON", "Parse", "error">>
AuthMessage == <<"Authentication", "expired">>
HttpMessage(st) == <<"HTTP", ToString(st)>>
\* the message field of the JSON body of an error response; <<>>: no such
\* field, or the body is no JSON
ServerMessages ==
  {<<>>, <<"Internal", "error">>, <<"Failed", "to", "fetch", "project">>,
   <<"Network", "policy", "violation">>}

\* message.includes(word)
includes(message, word) == \E i \in DOMAIN message : message[i] = word

\* how a call of fetch() and the reading of its response can end
FetchOutcomes ==
  {[kind |-> "abort"], [kind |-> "network"]}
  \cup [kind : {"response"}, status : Statuses, jsonOk : BOOLEAN,
        message : ServerMessages]

\* the error the try block throws for an outcome; NoError when it returns
ThrownFor(o) ==
  IF o.kind = "abort"
  THEN [name |-> "AbortError", message |-> AbortMessage, origin |-> "timeout"]
  ELSE IF o.kind = "network"
  THEN [name |-> "TypeError", message |-> NetworkMessage, origin |-> "network"]
  ELSE IF o.status = UNAUTHORIZED
  THEN [name |-> "Error", message |-> AuthMessage, origin |-> "unauthorized"]
  ELSE IF o.status # 200
  THEN [name |-> "Error",
        message |-> IF o.jsonOk /\ o.message # <<>>
                    THEN o.message ELSE HttpMessage(o.status),
        origin |-> "http"]
  ELSE IF ~o.jsonOk
  THEN [name |-> "SyntaxError", message |-> ParseMessage, origin |-> "parse"]
  ELSE NoError

\* shouldRetry(error)
shouldRetry(error) ==
  \/ error.name = "AbortError"
  \/ includes(error.message, "Network")
  \/ includes(error.message, "fetch")

\* new APIService(): this.retryAttempts = API_CONFIG.RETRY_ATTEMPTS
Construct(n) ==
  /\ apiPc = "new"
  /\ apiRetryAttempts' = n
  /\ apiPc' = "idle"
  /\ UNCHANGED <<attempt, fetches, apiError, apiResponse, authData, apiLog>>
  /\ UNCHANGED <<hubVars, ttsVars, retryVars>>

\* request(endpoint, options): attempt = 1, up to the call of fetch
Request ==
  /\ apiPc = "idle"
  /\ attempt' = 1
  /\ fetches' = fetches + 1
  /\ apiPc' = "fetching"
  /\ UNCHANGED <<apiRetryAttempts, apiError, apiResponse, authData, apiLog>>
  /\ UNCHANGED <<hubVars, ttsVars, retryVars>>

\* fetch settles and the rest of the try block runs; an error is caught,
\* logged, and either the retry delay starts or the failure is returned
FetchSettles(o) ==
  /\ apiPc = "fetching"
  /\ authData' = IF o.kind = "response" /\ o.status = UNAUTHORIZED
                 THEN FALSE ELSE authData
  /\ LET error == ThrownFor(o)
     IN IF error = NoError
        THEN /\ apiResponse' = "success"
             /\ apiPc' = "resolved"
             /\ UNCHANGED <<apiError, apiLog>>
        ELSE /\ apiError' = error
             /\ apiLog' = Append(apiLog, error.origin)
             /\ IF attempt < apiRetryAttempts /\ shouldRetry(error)
                THEN apiPc' = "delay" /\ UNCHANGED apiResponse
                ELSE apiPc' = "resolved" /\ apiResponse' = "failure"
  /\ UNCHANGED <<apiRetryAttempts, attempt, fetches>>
  /\ UNCHANGED <<hubVars, ttsVars, retryVars>>

\* the delay is over: request(endpoint, options, attempt + 1)
RequestAgain ==
  /\ apiPc = "delay"
  /\ attempt' = attempt + 1
  /\ fetches' = fetches + 1
  /\ apiPc' = "fetching"
  /\ UNCHANGED <<apiRetryAttempts, apiError, apiResponse, authData, apiLog>>
  /\ UNCHANGED <<hubVars, ttsVars, retryVars>>

NextApi ==
  \/ \E n \in 1..MaxRetryAttempts : Construct(n)
  \/ Request
  \/ \E o \in FetchOutcomes : FetchSettles(o)
  \/ RequestAgain

SpecApi == Init /\ [][NextApi]_vars

\* C30: the request makes at most retryAttempts fetch attempts, retries only
\* after a timeout or a network error, and resolves to success=false after a
\* single attempt on HTTP 401, having cleared the stored credentials.
C30_RequestRetriesOnlyNetworkErrors ==
  /\ [](fetches <= apiRetryAttempts)
  /\ [](apiLog # <<>> /\ Last(apiLog) = "unauthorized"
          => apiPc = "resolved" /\ apiResponse = "failure" /\ ~authData)
  /\ [][\A o \in FetchOutcomes :
          (FetchSettles(o) /\ apiPc' = "delay")
          => ThrownFor(o).origin \in {"timeout", "network"}
       ]_vars

=============================================================================
